---- MODULE Spec2Model ----
(***************************************************************************)
(* A model of gpxjoin (src/src/main.rs): parse_args, main and join_gpx.    *)
(*                                                                         *)
(* join_gpx reads each source through a quick_xml Reader as a stream of    *)
(* events and writes selected events to a Writer.  A source is modelled by *)
(* the events its reader has delivered so far (src[i]); what the reader    *)
(* delivers next is the environment's choice, so every event stream within *)
(* the bounds is explored.  One iteration of a loop of join_gpx is one     *)
(* step: the read, the match, the write and the pop with its check, in the *)
(* order of the code.                                                      *)
(***************************************************************************)
EXTENDS Naturals, Integers, Sequences, FiniteSets, TLC

\* ------------------------------------------------------------------ bounds
MaxSources == 2      \* sources handed to join_gpx
MaxEvents == 4       \* events all readers together deliver (Spec)
MaxEventsWF == 8     \* the same, for contract-respecting inputs (SpecWF)
MaxArgs == 2         \* command-line arguments after the program name
MaxEventsCli == 3    \* events all readers together deliver (SpecCli)
MaxSourcesMany == 3  \* sources handed to join_gpx (SpecMany)
MaxEventsMany == 3   \* events all readers together deliver (SpecMany)

\* ------------------------------------------------------------------ events
Names == {"gpx", "trk", "wpt"}

Start(n) == [kind |-> "Start", name |-> n]
End(n) == [kind |-> "End", name |-> n]
Empty(n) == [kind |-> "Empty", name |-> n]
Text == [kind |-> "Text", name |-> ""]
NoEvent == [kind |-> "None", name |-> ""]

\* Event::Start, Event::End, Event::Empty and the rest.  Text stands for text,
\* CDATA, comments, declarations, processing instructions and the empty
\* elements named neither gpx nor trk, which join_gpx treats alike: the
\* `_ => ()` arm.
Events == {Start(n) : n \in Names} \cup {End(n) : n \in Names}
            \cup {Empty("gpx"), Empty("trk"), Text}

GpxPath == <<"gpx">>
GpxTrk == <<"gpx", "trk">>

\* StartsWithExt::starts_with
StartsWith(self, other) ==
    IF Len(self) < Len(other)
    THEN FALSE
    ELSE \A k \in 1..Len(other) : self[k] = other[k]

\* first: Option<(Reader, Event)>
NoFirst == [set |-> FALSE, reader |-> 0, evt |-> NoEvent]
SomeFirst(r, e) == [set |-> TRUE, reader |-> r, evt |-> e]

\* indices of the sources: join_gpx gets MaxSources readers at most, main
\* opens one file per path
SrcIdx ==
    LET sizes == {MaxArgs, MaxSources, MaxSourcesMany}
    IN  0..((CHOOSE m \in sizes : \A k \in sizes : k <= m) - 1)

VARIABLES
    args,          \* std::env::args_os().skip(1)
    argi,          \* number of arguments parse_args has consumed
    paths,         \* parse_args: paths
    ignore_flags,  \* parse_args: ignore_flags
    files,         \* main: files (the path each opened reader was opened on)
    nsrc,          \* number of items the `sources` iterator yields
    handles,       \* indices of the sources whose read handle is open
    cur,           \* index of the source the for loop is at
    src,           \* src[i]: the events source i's reader has delivered
    path,          \* join_gpx: path
    first,         \* join_gpx: first
    out,           \* the events written to dest
    pc,            \* control position
    err,           \* the error the run ended with, "" for none
    left           \* events the readers may still deliver

vars == <<args, argi, paths, ignore_flags, files, nsrc, handles, cur, src,
          path, first, out, pc, err, left>>

cliVars == <<args, argi, paths, ignore_flags, files>>

\* ---------------------------------------------------------------- join_gpx

\* an error return: bail!, `?` on an Err, or the panic of unwrap; what the
\* function owns is dropped, its readers with it
Fail(e) ==
    /\ pc' = "failed"
    /\ err' = e
    /\ handles' = {}

\* a match that pushes the name of an empty-element event as well
PushStartOrEmpty(p, e) ==
    IF e.kind \in {"Start", "Empty"} THEN Append(p, e.name) ELSE p

\* Event::Start(ref start) => path.push(start.name().to_owned())
PushStart(p, e) == IF e.kind = "Start" THEN Append(p, e.name) ELSE p

\* a capture that does not look at first: a later source's root close
\* replaces the one already stored
IsRootCloseAgain(e, f, p) == e.kind = "End" /\ p = GpxPath

\* a capture that tests the path as it will be after the end tag's pop
IsRootCloseAfterPop(e, f, p) ==
    e.kind = "End" /\ ~f.set /\ Len(p) > 0 /\ SubSeq(p, 1, Len(p) - 1) = GpxPath

\* Event::End(_) if first.is_none() && path == [b"gpx"]
IsRootClose(e, f, p) == e.kind = "End" /\ ~f.set /\ p = GpxPath

\* if first.is_none() || path.starts_with(&[b"gpx", b"trk"])
Forwarded(f, p) == ~f.set \/ StartsWith(p, GpxTrk)

\* a writer that starts the output again with each event
WrittenOverwrite(o, f, p, e) == IF Forwarded(f, p) THEN <<e>> ELSE o

\* if ... { writer.write_event(&evt)?; }
Written(o, f, p, e) == IF Forwarded(f, p) THEN Append(o, e) ELSE o

\* match path.pop() { ... _ => () }: the popped name is the end tag's
PopMatches(p, e) == Len(p) > 0 /\ p[Len(p)] = e.name

\* path.pop()
Pop(p) == IF Len(p) > 0 THEN SubSeq(p, 1, Len(p) - 1) ELSE p

\* a loop that keeps the reader of every source it has scanned
NextSourceLeak(keep) ==
    /\ cur' = cur + 1
    /\ path' = <<>>
    /\ handles' = handles
    /\ pc' = IF cur + 1 < nsrc THEN "scan" ELSE "finish"

\* break (or Eof): r is dropped unless it was moved into first; the for loop
\* takes the next source with a new path and a new reader, or ends
NextSource(keep) ==
    /\ cur' = cur + 1
    /\ path' = <<>>
    /\ handles' = IF keep THEN handles ELSE handles \ {cur}
    /\ pc' = IF cur + 1 < nsrc THEN "scan" ELSE "finish"

\* an iteration that checks an end tag before it writes it
ScanEventCheckFirst(e) ==
    /\ pc = "scan"
    /\ left > 0
    /\ left' = left - 1
    /\ src' = [src EXCEPT ![cur] = Append(@, e)]
    /\ IF IsRootClose(e, first, path)
       THEN /\ first' = SomeFirst(cur, e)
            /\ NextSource(TRUE)
            /\ UNCHANGED <<out, err>>
       ELSE /\ IF e.kind = "End"
               THEN /\ path' = Pop(path)
                    /\ IF PopMatches(path, e)
                       THEN /\ out' = Written(out, first, path, e)
                            /\ UNCHANGED <<pc, err, handles>>
                       ELSE /\ out' = out
                            /\ Fail("TagMismatch")
               ELSE /\ out' = Written(out, first, PushStart(path, e), e)
                    /\ path' = PushStart(path, e)
                    /\ UNCHANGED <<pc, err, handles>>
            /\ UNCHANGED <<first, cur>>
    /\ UNCHANGED <<cliVars, nsrc>>

\* one iteration of the scan loop on an event other than Eof
ScanEvent(e) ==
    /\ pc = "scan"
    /\ left > 0
    /\ left' = left - 1
    /\ src' = [src EXCEPT ![cur] = Append(@, e)]
    /\ IF IsRootClose(e, first, path)
       THEN /\ first' = SomeFirst(cur, e)
            /\ NextSource(TRUE)
            /\ UNCHANGED <<out, err>>
       ELSE /\ out' = Written(out, first, PushStart(path, e), e)
            /\ IF e.kind = "End"
               THEN /\ path' = Pop(path)
                    /\ IF PopMatches(path, e)
                       THEN UNCHANGED <<pc, err, handles>>
                       ELSE Fail("TagMismatch")
               ELSE /\ path' = PushStart(path, e)
                    /\ UNCHANGED <<pc, err, handles>>
            /\ UNCHANGED <<first, cur>>
    /\ UNCHANGED <<cliVars, nsrc>>

\* the iteration's writer.write_event(&evt)? returns Err
ScanWriteErr(e) ==
    /\ pc = "scan"
    /\ left > 0
    /\ left' = left - 1
    /\ src' = [src EXCEPT ![cur] = Append(@, e)]
    /\ ~IsRootClose(e, first, path)
    /\ Forwarded(first, PushStart(path, e))
    /\ path' = PushStart(path, e)
    /\ Fail("WriteError")
    /\ UNCHANGED <<cliVars, nsrc, cur, first, out>>

\* an end of input that is an error while an element is open
ScanEofStrict ==
    /\ pc = "scan"
    /\ IF path = <<>>
       THEN NextSource(FALSE) /\ UNCHANGED err
       ELSE Fail("UnexpectedEof") /\ UNCHANGED <<cur, path>>
    /\ UNCHANGED <<cliVars, nsrc, src, first, out, left>>

\* Event::Eof => break
ScanEof ==
    /\ pc = "scan"
    /\ NextSource(FALSE)
    /\ UNCHANGED <<cliVars, nsrc, src, first, out, err, left>>

\* r.read_event(&mut buf)? returns Err
ScanReadErr ==
    /\ pc = "scan"
    /\ Fail("ParseError")
    /\ UNCHANGED <<cliVars, nsrc, cur, src, path, first, out, left>>

\* let (mut first, stashed_evt) = first.unwrap(); writer.write_event(stashed_evt)?;
Finish ==
    /\ pc = "finish"
    /\ IF first.set
       THEN /\ out' = Append(out, first.evt)
            /\ pc' = "tail"
            /\ handles' = {first.reader}
            /\ UNCHANGED err
       ELSE /\ Fail("MissingRootClose")
            /\ UNCHANGED out
    /\ UNCHANGED <<cliVars, nsrc, cur, src, path, first, left>>

\* writer.write_event(stashed_evt)? returns Err
FinishWriteErr ==
    /\ pc = "finish"
    /\ first.set
    /\ Fail("WriteError")
    /\ UNCHANGED <<cliVars, nsrc, cur, src, path, first, out, left>>

\* loop { let evt = first.read_event(&mut buf)?; ...; writer.write_event(evt)?; }
TailEvent(e) ==
    /\ pc = "tail"
    /\ left > 0
    /\ left' = left - 1
    /\ src' = [src EXCEPT ![first.reader] = Append(@, e)]
    /\ out' = Append(out, e)
    /\ UNCHANGED <<cliVars, nsrc, handles, cur, path, first, pc, err>>

\* if matches!(evt, Event::Eof) { break; }  Ok(())
TailEof ==
    /\ pc = "tail"
    /\ pc' = "done"
    /\ handles' = {}
    /\ UNCHANGED <<cliVars, nsrc, cur, src, path, first, out, err, left>>

\* first.read_event(&mut buf)? returns Err
TailReadErr ==
    /\ pc = "tail"
    /\ Fail("ParseError")
    /\ UNCHANGED <<cliVars, nsrc, cur, src, path, first, out, left>>

\* the iteration's writer.write_event(evt)? returns Err
TailWriteErr(e) ==
    /\ pc = "tail"
    /\ left > 0
    /\ left' = left - 1
    /\ src' = [src EXCEPT ![first.reader] = Append(@, e)]
    /\ Fail("WriteError")
    /\ UNCHANGED <<cliVars, nsrc, cur, path, first, out>>

\* ------------------------------------------------------ parse_args, main

\* Some("-h") | Some("--help") | Some("-V") | Some("--version")
HelpFlags == {"-h", "--help", "-V", "--version"}

\* the arguments a run is given: flags, the separator, and file names
ArgSet == HelpFlags \cup {"--", "a.gpx", "b.gpx"}

\* a parse_args that keeps interpreting flags after the separator
FlagsActiveAlways(ig) == TRUE

\* if !ignore_flags
FlagsActive(ig) == ~ig

\* for arg in std::env::args_os().skip(1) { ... }: one argument
ParseArg ==
    /\ pc = "parse_args"
    /\ argi < Len(args)
    /\ argi' = argi + 1
    /\ LET arg == args[argi + 1] IN
       IF FlagsActive(ignore_flags) /\ arg \in HelpFlags
       THEN /\ pc' = "exit"
            /\ err' = "Usage"
            /\ UNCHANGED <<paths, ignore_flags>>
       ELSE IF FlagsActive(ignore_flags) /\ arg = "--"
       THEN /\ ignore_flags' = TRUE
            /\ UNCHANGED <<paths, pc, err>>
       ELSE /\ paths' = Append(paths, arg)
            /\ UNCHANGED <<ignore_flags, pc, err>>
    /\ UNCHANGED <<args, files, nsrc, handles, cur, src, path, first, out, left>>

\* parse_args returns paths to main
ParseReturn ==
    /\ pc = "parse_args"
    /\ argi = Len(args)
    /\ pc' = "open"
    /\ UNCHANGED <<cliVars, nsrc, handles, cur, src, path, first, out, err, left>>

\* a main that starts the merge once one file is open
AllOpenedOrOne == Len(files) = Len(paths) \/ Len(files) >= 1

\* main's for loop is over: every path has been opened
AllOpened == Len(files) = Len(paths)

\* File::open(&path).with_context(..)?; files.push(r): it opens or fails
OpenFile ==
    /\ pc = "open"
    /\ ~AllOpened
    /\ \/ /\ files' = Append(files, paths[Len(files) + 1])
          /\ handles' = handles \cup {Len(files)}
          /\ UNCHANGED <<pc, err>>
       \/ /\ Fail("OpenError")
          /\ UNCHANGED files
    /\ UNCHANGED <<args, argi, paths, ignore_flags, nsrc, cur, src, path, first,
                   out, left>>

\* if files.is_empty() { bail!(..) }  join_gpx(files.into_iter(), io::stdout())?
CallJoin ==
    /\ pc = "open"
    /\ AllOpened
    /\ IF Len(files) = 0
       THEN /\ Fail("NoSources")
            /\ UNCHANGED nsrc
       ELSE /\ nsrc' = Len(files)
            /\ pc' = "scan"
            /\ UNCHANGED <<err, handles>>
    /\ UNCHANGED <<cliVars, cur, src, path, first, out, left>>

\* ------------------------------------------------------ the input contract

\* the names of the elements open after the events of h
RECURSIVE Open(_)
Open(h) ==
    IF h = <<>>
    THEN <<>>
    ELSE LET p == Open(SubSeq(h, 1, Len(h) - 1))
             e == h[Len(h)]
         IN  IF e.kind = "Start" THEN Append(p, e.name)
             ELSE IF e.kind = "End" /\ Len(p) > 0 THEN SubSeq(p, 1, Len(p) - 1)
             ELSE p

\* h holds an element
HasElement(h) == \E k \in 1..Len(h) : h[k].kind \in {"Start", "Empty"}

\* h is a whole document: its root element has been closed
Complete(h) == HasElement(h) /\ Open(h) = <<>>

\* the events that may follow h in a well-formed document whose root is gpx
WFEvents(h) ==
    LET p == Open(h) IN
    IF p = <<>>
    THEN IF HasElement(h) THEN {Text} ELSE {Text, Start("gpx"), Empty("gpx")}
    ELSE {Text, Empty("gpx"), Empty("trk"), End(p[Len(p)])}
            \cup {Start(n) : n \in Names}

\* the events h still needs to become a whole document
Need(h) == Len(Open(h)) + (IF HasElement(h) THEN 0 ELSE 1)

\* --------------------------------------------------------- specifications

\* join_gpx called on n readers, as tests::test calls it
InitJoin(n, budget) ==
    /\ args = <<>>
    /\ argi = 0
    /\ paths = <<>>
    /\ ignore_flags = FALSE
    /\ files = <<>>
    /\ nsrc = n
    /\ handles = 0..(n - 1)
    /\ cur = 0
    /\ src = [i \in SrcIdx |-> <<>>]
    /\ path = <<>>
    /\ first = NoFirst
    /\ out = <<>>
    /\ pc = IF n > 0 THEN "scan" ELSE "finish"
    /\ err = ""
    /\ left = budget

\* join_gpx on any event streams, with readers and a writer that may fail
Init == \E n \in 0..MaxSources : InitJoin(n, MaxEvents)

Next ==
    \/ \E e \in Events : ScanEvent(e)
    \/ \E e \in Events : ScanWriteErr(e)
    \/ ScanEof
    \/ ScanReadErr
    \/ Finish
    \/ FinishWriteErr
    \/ \E e \in Events : TailEvent(e)
    \/ TailEof
    \/ TailReadErr
    \/ \E e \in Events : TailWriteErr(e)

Spec == Init /\ [][Next]_vars

\* the same on more sources, each of them short
InitMany == \E n \in 1..MaxSourcesMany : InitJoin(n, MaxEventsMany)

SpecMany == InitMany /\ [][Next]_vars

\* join_gpx on sources that each hold one well-formed document whose root is
\* gpx, with readers and a writer that do not fail
InitWF == \E n \in 1..MaxSources : InitJoin(n, MaxEventsWF)

WFScanEvent(e) ==
    /\ pc = "scan"
    /\ e \in WFEvents(src[cur])
    /\ left - 1 >= Need(Append(src[cur], e)) + (nsrc - cur - 1)
    /\ ScanEvent(e)

WFScanEof ==
    /\ pc = "scan"
    /\ Complete(src[cur])
    /\ ScanEof

WFTailEvent(e) ==
    /\ pc = "tail"
    /\ e \in WFEvents(src[first.reader])
    /\ TailEvent(e)

NextWF ==
    \/ \E e \in Events : WFScanEvent(e)
    \/ WFScanEof
    \/ Finish
    \/ \E e \in Events : WFTailEvent(e)
    \/ TailEof

SpecWF == InitWF /\ [][NextWF]_vars

\* the whole program: main on a command line
RECURSIVE SeqsUpTo(_, _)
SeqsUpTo(S, n) ==
    IF n = 0
    THEN {<<>>}
    ELSE LET shorter == SeqsUpTo(S, n - 1)
         IN  shorter \cup {Append(q, x) : q \in shorter, x \in S}

InitCli ==
    /\ args \in SeqsUpTo(ArgSet, MaxArgs)
    /\ argi = 0
    /\ paths = <<>>
    /\ ignore_flags = FALSE
    /\ files = <<>>
    /\ nsrc = 0
    /\ handles = {}
    /\ cur = 0
    /\ src = [i \in SrcIdx |-> <<>>]
    /\ path = <<>>
    /\ first = NoFirst
    /\ out = <<>>
    /\ pc = "parse_args"
    /\ err = ""
    /\ left = MaxEventsCli

NextCli ==
    \/ ParseArg
    \/ ParseReturn
    \/ OpenFile
    \/ CallJoin
    \/ Next

SpecCli == InitCli /\ [][NextCli]_vars

\* ----------------------------------------------- documents, declaratively

\* the names of the elements open when event k of h arrives
Ancestors(h, k) == Open(SubSeq(h, 1, k - 1))

\* the Element Path at event k: a start tag counts itself, an end tag is
\* still inside the element it closes
PathAt(h, k) ==
    IF h[k].kind = "Start" THEN Append(Ancestors(h, k), h[k].name)
    ELSE Ancestors(h, k)

\* the path of the element event k belongs to or is
ElemPath(h, k) ==
    IF h[k].kind \in {"Start", "Empty"} THEN Append(Ancestors(h, k), h[k].name)
    ELSE Ancestors(h, k)

UnderGpxTrk(p) == Len(p) >= 2 /\ p[1] = "gpx" /\ p[2] = "trk"

\* the events of h[1..k] in a subtree rooted at gpx/trk, in order
RECURSIVE TrackPart(_, _)
TrackPart(h, k) ==
    IF k = 0
    THEN <<>>
    ELSE IF UnderGpxTrk(ElemPath(h, k))
         THEN Append(TrackPart(h, k - 1), h[k])
         ELSE TrackPart(h, k - 1)

\* the track subtrees of contributors 1..i, in contributor order
RECURSIVE ContribTracks(_)
ContribTracks(i) ==
    IF i = 0
    THEN <<>>
    ELSE ContribTracks(i - 1) \o TrackPart(src[i], Len(src[i]))

\* event k of h is the end tag of h's root element
IsRootEnd(h, k) == h[k].kind = "End" /\ Len(Ancestors(h, k)) = 1

HasRootEnd(h) == \E k \in 1..Len(h) : IsRootEnd(h, k)

RootEndIdx(h) ==
    CHOOSE k \in 1..Len(h) :
        IsRootEnd(h, k) /\ \A j \in 1..(k - 1) : ~IsRootEnd(h, j)

\* event k of h is an end tag that closes the element open at that point
EndMatches(h, k) ==
    LET p == Ancestors(h, k) IN Len(p) > 0 /\ p[Len(p)] = h[k].name

\* start and end tags of h are balanced and properly nested
Balanced(h) ==
    /\ \A k \in 1..Len(h) : h[k].kind = "End" => EndMatches(h, k)
    /\ Open(h) = <<>>

\* the top-level elements of h
Roots(h) ==
    {k \in 1..Len(h) : h[k].kind \in {"Start", "Empty"} /\ Ancestors(h, k) = <<>>}

\* h is a single well-formed document
WellFormedDoc(h) == Balanced(h) /\ Cardinality(Roots(h)) = 1

\* the track elements of h: elements named trk, children of a gpx root
Tracks(h) ==
    {k \in 1..Len(h) : /\ h[k].kind \in {"Start", "Empty"}
                       /\ h[k].name = "trk"
                       /\ Ancestors(h, k) = GpxPath}

\* the track elements of sources 0..i-1
RECURSIVE TracksIn(_)
TracksIn(i) ==
    IF i = 0 THEN 0 ELSE TracksIn(i - 1) + Cardinality(Tracks(src[i - 1]))

\* ------------------------------------------------------------------ claims

\* C1: for a template with a root-closing tag and n >= 1 contributors, all
\* satisfying the input contract, the output of a successful run is the
\* template up to its root-closing tag, then each contributor's events in a
\* subtree rooted at gpx/trk, in contributor order, then the root-closing tag,
\* then the rest of the template.
C1_TrackConcatenation ==
    (pc = "done" /\ nsrc >= 2 /\ HasRootEnd(src[0])) =>
        LET T == src[0]
            k == RootEndIdx(T)
        IN  out = SubSeq(T, 1, k - 1) \o ContribTracks(nsrc - 1)
                    \o <<T[k]>> \o SubSeq(T, k + 1, Len(T))

\* C2: merging one template that satisfies the input contract, with no
\* contributor, succeeds and writes exactly the template's events.
C2_SingleTemplateIdentity ==
    (nsrc = 1 /\ pc \in {"done", "failed"}) => (pc = "done" /\ out = src[0])

\* C3: an event of a contributor (index >= 1) is written only when the
\* contributor's own path has the prefix [gpx, trk] as the event is processed;
\* the tail written after the scan is the template's.
C3_ContributorsOnlyTracks ==
    [][/\ (pc = "scan" /\ cur >= 1 /\ out' # out) =>
              UnderGpxTrk(PathAt(src'[cur], Len(src'[cur])))
       /\ (pc = "tail" /\ out' # out) => first.reader = 0]_vars

\* C4: every track element of every source (a trk child of the gpx root, as a
\* start/end pair or as one empty-element event) is in the output of a
\* successful run.
C4_EveryTrackAppears ==
    pc = "done" => Cardinality(Tracks(out)) >= TracksIn(nsrc)

C6_TemplateMustClose ==
    pc = "done" =>
        \E k \in 1..Len(src[0]) :
            src[0][k].kind = "End" /\ Ancestors(src[0], k) = GpxPath

\* C7: when every source satisfies the input contract and the run succeeds,
\* the output is a single well-formed document.
C7_OutputWellFormed ==
    pc = "done" => WellFormedDoc(out)

\* C8: a run of main writes no merge event before every path has been opened
\* and at least one path is present; a run with no path, or with a path that
\* cannot be opened, ends in failure with nothing written.
C8_NoOutputBeforeAllOpened ==
    /\ (out # <<>> \/ pc \in {"scan", "finish", "tail", "done"}) =>
          /\ argi = Len(args)
          /\ Len(paths) >= 1
          /\ Len(files) = Len(paths)
    /\ (pc = "failed" /\ err \in {"OpenError", "NoSources"}) => out = <<>>

\* a path after the first cannot be opened: the run has failed, nothing written
C8_Witness ==
    /\ pc = "failed"
    /\ err = "OpenError"
    /\ Len(files) >= 1
    /\ out = <<>>

\* the place of the first bare -- in a, Len(a) + 1 when there is none
SepIdx(a) ==
    IF \E k \in 1..Len(a) : a[k] = "--"
    THEN CHOOSE k \in 1..Len(a) :
            a[k] = "--" /\ \A j \in 1..(k - 1) : a[j] # "--"
    ELSE Len(a) + 1

HelpBeforeSep(a) == \E k \in 1..(SepIdx(a) - 1) : a[k] \in HelpFlags

\* C9: the first bare -- is consumed and every argument after it is a path,
\* in order; before it -h, --help, -V, --version end the process with a
\* non-zero status, no file opened and nothing written, and every other
\* argument is a path, in order.
C9_ParseArgs ==
    pc # "parse_args" =>
        IF HelpBeforeSep(args)
        THEN pc = "exit" /\ err = "Usage" /\ files = <<>> /\ handles = {}
                /\ out = <<>>
        ELSE /\ pc # "exit"
             /\ paths = SubSeq(args, 1, SepIdx(args) - 1)
                           \o SubSeq(args, SepIdx(args) + 1, Len(args))

\* parse_args has returned a path that looks like a flag or a separator
C9_Witness ==
    /\ pc = "open"
    /\ \E k \in 1..Len(paths) : paths[k] \in HelpFlags \cup {"--"}

\* C10: in every state in which the Pending Root-Close is set, it was
\* captured from source 0.
C10_PendingFromTemplateOnly ==
    first.set => first.reader = 0

\* the place in h of the first end tag that arrives at path [gpx]
CapIdx(h) ==
    CHOOSE k \in 1..Len(h) :
        /\ h[k].kind = "End" /\ Ancestors(h, k) = GpxPath
        /\ \A j \in 1..(k - 1) : ~(h[j].kind = "End" /\ Ancestors(h, j) = GpxPath)

\* the events of h[1..k] that arrive while the Element Path has the prefix
\* [gpx, trk], in order
RECURSIVE FilteredPart(_, _)
FilteredPart(h, k) ==
    IF k = 0
    THEN <<>>
    ELSE IF UnderGpxTrk(PathAt(h, k))
         THEN Append(FilteredPart(h, k - 1), h[k])
         ELSE FilteredPart(h, k - 1)

\* all events of sources 0..i-1, in order
RECURSIVE WholeSources(_)
WholeSources(i) ==
    IF i = 0 THEN <<>> ELSE WholeSources(i - 1) \o src[i - 1]

\* the filtered events of sources r+1..i, in order
RECURSIVE FilteredSources(_, _)
FilteredSources(r, i) ==
    IF i <= r
    THEN <<>>
    ELSE FilteredSources(r, i - 1) \o FilteredPart(src[i], Len(src[i]))

\* what the scan has written once the Pending Root-Close is set: the sources
\* before the paused one, the paused one up to its root close, and the
\* filtered events of the sources after it
ScanOutput ==
    LET r == first.reader
        c == CapIdx(src[r])
    IN  WholeSources(r) \o SubSeq(src[r], 1, c - 1) \o FilteredSources(r, nsrc - 1)

\* the events the paused source has delivered after its root close
TailOf(r) == SubSeq(src[r], CapIdx(src[r]) + 1, Len(src[r]))

\* C11: the Pending Root-Close is set at most once, and not written when it
\* is set; while the scan goes on it is not in the output; from the end of
\* the scan on, the stored end tag stands in the output once, after everything
\* the scan wrote and before the events of the tail.
C11_PendingWrittenOnce ==
    /\ [](/\ (first.set /\ pc \in {"scan", "finish"}) =>
                /\ out = ScanOutput
                /\ TailOf(first.reader) = <<>>
          /\ pc \in {"tail", "done"} =>
                /\ first.set
                /\ first.evt = src[first.reader][CapIdx(src[first.reader])]
                /\ out = ScanOutput \o <<first.evt>> \o TailOf(first.reader))
    /\ [][first' # first => (~first.set /\ first'.set /\ out' = out)]_vars

\* a successful run: the stored end tag was written after a contributor's
\* forwarded event
C11_Witness ==
    /\ pc = "done"
    /\ first.reader = 0
    /\ FilteredSources(0, nsrc - 1) # <<>>
    /\ out = ScanOutput \o <<first.evt>>

\* the last event of a history
LastOf(h) == h[Len(h)]

\* C12 as stated: source 0's scan ends at the end tag after whose pop the path
\* is exactly [gpx], and at no other event.
C12_CaptureAfterPop ==
    [][(pc = "scan" /\ cur = 0 /\ src'[0] # src[0]) =>
          (first'.set <=> (LastOf(src'[0]).kind = "End" /\ Open(src'[0]) = GpxPath))]_vars

\* C12, amended: source 0's scan ends at the end tag that arrives while the
\* path is exactly [gpx], and at no other event; that event is not written,
\* it is stored with the reader, and source 0 is not read during the rest of
\* the scan.
C12_CaptureBeforePop ==
    [][/\ (pc = "scan" /\ cur = 0 /\ src'[0] # src[0]) =>
             /\ first'.set <=>
                   (LastOf(src'[0]).kind = "End" /\ Open(src[0]) = GpxPath)
             /\ first'.set =>
                   /\ first' = SomeFirst(0, LastOf(src'[0]))
                   /\ out' = out
                   /\ cur' = 1
       /\ (pc \in {"scan", "finish"} /\ first.set /\ first.reader = 0) =>
             src'[0] = src[0]]_vars

\* source 0 is paused at its root close, after a child element was closed
C12_Witness ==
    /\ first.set
    /\ first.reader = 0
    /\ pc \in {"scan", "finish"}
    /\ Len(src[0]) >= 4
    /\ out = SubSeq(src[0], 1, Len(src[0]) - 1)

\* the scan of source i ended at its end of input
AtEof(i) == i < cur /\ ~(first.set /\ first.reader = i)

\* C13: an event is read from a source only when every source before it has
\* reached its end of input (or, for source 0, is paused at its root close),
\* and from the paused source only when every other source has reached its
\* end of input.
C13_StrictSequence ==
    [][\A i \in SrcIdx :
          src'[i] # src[i] =>
              /\ \A j \in 0..(i - 1) :
                    AtEof(j) \/ (j = 0 /\ first.set /\ first.reader = 0)
              /\ (first.set /\ first.reader = i) =>
                    \A j \in 0..(nsrc - 1) : j # i => AtEof(j)]_vars

\* C14 as stated: no handle is open for a source whose scan has not started,
\* other than the paused one.
C14_OpenedInTurn ==
    \A i \in handles : i <= cur \/ (first.set /\ i = first.reader)

\* C14, amended: every path is opened before the merge starts; from then on
\* the open handles are those of the source being scanned, of the sources not
\* yet scanned and of the paused source; in the tail only the paused source's
\* handle is open, and none is when the run has ended.
C14_HandlesHeld ==
    /\ pc = "parse_args" => handles = {}
    /\ pc = "open" => handles = 0..(Len(files) - 1)
    /\ pc \in {"scan", "finish"} =>
          handles = (cur..(nsrc - 1)) \cup (IF first.set THEN {first.reader} ELSE {})
    /\ pc = "tail" => handles = {first.reader}
    /\ pc \in {"done", "failed", "exit"} => handles = {}

\* two files were opened; the contributor's handle went at its end of input
\* and the template's is still open for the tail
C14_Witness ==
    /\ Len(files) = 2
    /\ pc = "tail"
    /\ first.reader = 0
    /\ handles = {0}

\* start tags minus end tags among the first k events of h
Depth(h, k) ==
    Cardinality({j \in 1..k : h[j].kind = "Start"})
        - Cardinality({j \in 1..k : h[j].kind = "End"})

\* the places of the start tags of h that no later end tag has closed: the
\* nesting depth never falls below the depth they opened
UnclosedIdx(h) ==
    {k \in 1..Len(h) :
        /\ h[k].kind = "Start"
        /\ \A j \in k..Len(h) : Depth(h, j) >= Depth(h, k)}

\* their names, in the order of the start tags
UnclosedNames(h) ==
    LET idx == UnclosedIdx(h)
    IN  [i \in 1..Cardinality(idx) |->
            h[CHOOSE k \in idx : Cardinality({j \in idx : j <= k}) = i].name]

\* C15: while a source is scanned the Element Path is the names of its start
\* tags not yet closed, and as long as the nesting depth; it is empty when the
\* scan of a source begins, one longer after a start tag, one shorter after a
\* checked end tag, and the same after any other event.
C15_PathIsOpenElements ==
    /\ [](pc = "scan" =>
             /\ path = UnclosedNames(src[cur])
             /\ Len(path) = Depth(src[cur], Len(src[cur])))
    /\ [][/\ (pc' = "scan" /\ cur' # cur) => path' = <<>>
          /\ (pc = "scan" /\ pc' = "scan" /\ cur' = cur /\ src' # src) =>
                LET e == LastOf(src'[cur])
                IN  /\ e.kind = "Start" => path' = Append(path, e.name)
                    /\ e.kind = "End" => path = Append(path', e.name)
                    /\ e.kind \notin {"Start", "End"} => path' = path]_vars

\* a source that ended with an element open is followed by one that has
\* opened two elements and closed one
C15_Witness ==
    /\ pc = "scan"
    /\ cur = 1
    /\ UnclosedNames(src[0]) # <<>>
    /\ Len(src[1]) = 3
    /\ path = <<"gpx">>

\* C16: the output only grows, by at most one event a step, and the event
\* added is the one just read or the stored root close; a step that fails the
\* run leaves what was written before it in place.
C16_AppendOnly ==
    [][\/ out' = out
       \/ /\ pc = "finish"
          /\ out' = Append(out, first.evt)
       \/ \E i \in SrcIdx :
              /\ src'[i] # src[i]
              /\ out' = Append(out, LastOf(src'[i]))]_vars

\* a run that failed after it had written events
C16_Witness ==
    /\ pc = "failed"
    /\ Len(out) >= 2
    /\ err \in {"TagMismatch", "ParseError", "WriteError"}

C18_TruncatedSourceAccepted ==
    [][(pc = "scan" /\ path # <<>> /\ src' = src /\ err' # "ParseError") =>
          /\ pc' \in {"scan", "finish"}
          /\ cur' = cur + 1
          /\ path' = <<>>
          /\ err' = ""
          /\ out' = out]_vars

\* a run that reported success although the contributor ended inside a track,
\* whose start tag is in the output
C18_Witness ==
    /\ pc = "done"
    /\ nsrc = 2
    /\ first.reader = 0
    /\ UnderGpxTrk(UnclosedNames(src[1]))
    /\ FilteredPart(src[1], Len(src[1])) = <<Start("trk")>>
    /\ out = SubSeq(src[0], 1, Len(src[0]) - 1) \o <<Start("trk")>> \o <<first.evt>>

====
